---- MODULE Spec2Model ----
(***************************************************************************)
(* QMS (Quick Monitor Switcher), src/src/qms.py: the tray application      *)
(* that toggles secondary monitors, its settings file and its command      *)
(* line.  The monitors of the machine, the settings file on disk and the   *)
(* commands sent to the monitor manager are part of the state.             *)
(***************************************************************************)
EXTENDS Integers, Sequences, FiniteSets, TLC

(* ---------------------------------------------------------------- bounds *)
\* The individually addressable monitors are named 1..MaxMonitors
\* ("Monitor1", "Monitor2", ...).
MaxMonitors == 2
\* Longest name list given to --enable / --disable.
MaxArgs == 1
\* Monitor changes made from outside the program (plug, unplug, power)
\* during one life of the model.
MaxExternal == 1

Names == 1..MaxMonitors
YesNo == {"Yes", "No"}

Range(s) == {s[i] : i \in 1..Len(s)}

(* ------------------------------------------------ the machine's monitors *)
\* Monitor 0 is the one monitor that is not individually addressable
\* (monitor[3] == "Yes"); it is always attached and only the display switch
\* drives it.  The others have monitor[3] == "No".
Fixed == 0
AllNames == {Fixed} \cup Names
Flag(n) == IF n = Fixed THEN "Yes" ELSE "No"

Absent == [present |-> FALSE, active |-> "No"]
Attached == [present : {TRUE}, active : YesNo]
EnvValues == {e \in [AllNames -> {Absent} \cup Attached] : e[Fixed].present}

NameSeq == [i \in 1..(MaxMonitors + 1) |-> i - 1]

\* monitor_manager.generate_monitors(): the attached monitors in the order
\* the system enumerates them, as rows (index, name, active, flag); Python's
\* monitor[k] is row[k + 1].
generate_monitors(e) ==
    LET present == SelectSeq(NameSeq, LAMBDA n : e[n].present)
    IN  [i \in 1..Len(present) |->
            <<i, present[i], e[present[i]].active, Flag(present[i])>>]

\* monitor_manager.toggle_monitors(names, enable): every named monitor that
\* is attached and individually addressable is switched on or off.
toggle_monitors(e, names, enable) ==
    [n \in AllNames |->
        IF n \in Range(names) /\ e[n].present /\ Flag(n) = "No"
        THEN [e[n] EXCEPT !.active = IF enable THEN "Yes" ELSE "No"]
        ELSE e[n]]

\* monitor_manager.run_display_switch(mode): the display-switch path acts on
\* the monitors that are not individually addressable.
run_display_switch(e, mode) ==
    [n \in AllNames |->
        IF e[n].present /\ Flag(n) = "Yes"
        THEN [e[n] EXCEPT !.active = IF mode = "/extend" THEN "Yes" ELSE "No"]
        ELSE e[n]]

(* ------------------------------------------------------- commands issued *)
NoNames == << >>
CmdSwitch(mode) ==
    [op |-> "run_display_switch", mode |-> mode, names |-> NoNames, enable |-> FALSE]
CmdMonitors(names, enable) ==
    [op |-> "toggle_monitors", mode |-> "", names |-> names, enable |-> enable]
CmdScan ==
    [op |-> "generate_monitors", mode |-> "", names |-> NoNames, enable |-> FALSE]
CmdList ==
    [op |-> "list_monitors", mode |-> "", names |-> NoNames, enable |-> FALSE]
CmdWrite(list) ==
    [op |-> "write_settings", mode |-> "", names |-> list, enable |-> FALSE]

\* The effect of one command on the machine's monitors.
Effect(e, c) ==
    IF c.op = "run_display_switch" THEN run_display_switch(e, c.mode)
    ELSE IF c.op = "toggle_monitors" THEN toggle_monitors(e, c.names, c.enable)
    ELSE e

RECURSIVE EffectAll(_, _)
EffectAll(e, cs) ==
    IF cs = << >> THEN e ELSE EffectAll(Effect(e, Head(cs)), Tail(cs))

(* ------------------------------------------------------------- settings *)
\* self.settings = {} (no key) or {"secondary_monitors": [...]}.
EmptySettings == [has_key |-> FALSE, secondary_monitors |-> NoNames]
Settings(list) == [has_key |-> TRUE, secondary_monitors |-> list]
\* self.settings.get("secondary_monitors", [])
SettingsGet(s) == IF s.has_key THEN s.secondary_monitors ELSE NoNames

\* The settings file: absent, not valid JSON, or a JSON document.
FileAbsent == [exists |-> FALSE, valid |-> FALSE, doc |-> EmptySettings]
FileMalformed == [exists |-> TRUE, valid |-> FALSE, doc |-> EmptySettings]
FileOf(doc) == [exists |-> TRUE, valid |-> TRUE, doc |-> doc]

(* ------------------------------------------- pure helpers of class QMS *)
\* A checkbox for every scanned monitor, whatever its monitor[3].
CheckboxNamesUnfiltered(mons) == [i \in 1..Len(mons) |-> mons[i][2]]

\* create_monitor_checkboxes, lines 64-75: one checkbox per scanned monitor
\* with monitor[3] == "No", keyed by monitor[1], in scan order.
CheckboxNames(mons) ==
    LET rows == SelectSeq(mons, LAMBDA m : m[4] = "No")
    IN  [i \in 1..Len(rows) |-> rows[i][2]]

\* get_active_monitors, lines 145-147.
active_monitors_count(mons) ==
    Cardinality({i \in 1..Len(mons) : mons[i][3] = "Yes" /\ mons[i][4] = "No"})
get_active_monitors(mons) == active_monitors_count(mons) > 0

\* save_settings, lines 81-85: the names whose checkbox is checked, in the
\* order of the checkbox dictionary.
CheckedList(keys, checked) == SelectSeq(keys, LAMBDA k : k \in checked)

\* A save_settings that persists every checkbox name, checked or not.
save_settings_all(keys, checked) == keys

\* save_settings, lines 80-88: the value given to self.settings and dumped
\* to the file under the key "secondary_monitors".
save_settings(keys, checked) == CheckedList(keys, checked)

\* create_tray_icon / update_tray_icon, lines 106 and 139.
IconVariantStale(enabled) == "primary"

IconVariant(enabled) == IF ~enabled THEN "secondary" ELSE "primary"
\* create_tray_menu, lines 121-125.
MenuText(enabled) ==
    IF ~enabled THEN "Enable secondary monitors" ELSE "Disable secondary monitors"

\* A toggle that always ends Enabled.
FlipStuck(enabled) == TRUE

\* toggle_secondary_monitors, line 163.
Flip(enabled) == ~enabled

\* A toggle that rebuilds the checkboxes in either mode.
rebuilds_always(ddcci_off) == TRUE

\* toggle_secondary_monitors, line 166: the checkboxes are rebuilt (and the
\* monitors rescanned) at the end of a toggle only in DDC/CI mode.
rebuilds_after_toggle(ddcci_off) == ~ddcci_off

\* A start that never shows the window.
shown_never(is_first_run) == FALSE

\* __main__, lines 219-220: the window is shown at the start iff first_run.
shown_at_start(is_first_run) == is_first_run

\* toggle_secondary_monitors, line 155: the first index whose monitor[1] is
\* the checkbox's name; 0 when next() finds none (StopIteration).
monitor_index(mons, name) ==
    LET hits == {i \in 1..Len(mons) : mons[i][2] = name}
    IN  IF hits = {} THEN 0 ELSE CHOOSE i \in hits : \A j \in hits : i <= j

CmdRaise(what) ==
    [op |-> what, mode |-> "", names |-> NoNames, enable |-> FALSE]

\* A loop that sends a command for every checkbox, checked or not.
PerMonitorAll(enabled, keys, checked, mons) ==
    [i \in 1..Len(keys) |->
        IF monitor_index(mons, keys[i]) = 0
        THEN CmdRaise("StopIteration")
        ELSE CmdMonitors(<<mons[monitor_index(mons, keys[i])][2]>>, ~enabled)]

\* toggle_secondary_monitors, lines 153-159: the per-monitor commands, one
\* for each checked checkbox in dictionary order.
PerMonitor(enabled, keys, checked, mons) ==
    LET sel == CheckedList(keys, checked)
    IN  [i \in 1..Len(sel) |->
            IF monitor_index(mons, sel[i]) = 0
            THEN CmdRaise("StopIteration")
            ELSE CmdMonitors(<<mons[monitor_index(mons, sel[i])][2]>>, ~enabled)]

\* A toggle that runs the display switch on the wrong side of the loop.
TogglePlanSwapped(enabled, ddcci_off, keys, checked, mons) ==
    (IF enabled THEN <<CmdSwitch("/internal")>> ELSE << >>)
    \o (IF ~ddcci_off THEN PerMonitor(enabled, keys, checked, mons) ELSE << >>)
    \o (IF ~enabled THEN <<CmdSwitch("/extend")>> ELSE << >>)

\* toggle_secondary_monitors, lines 150-162: the commands of one toggle in
\* the order the method issues them.
TogglePlan(enabled, ddcci_off, keys, checked, mons) ==
    (IF ~enabled THEN <<CmdSwitch("/extend")>> ELSE << >>)
    \o (IF ~ddcci_off THEN PerMonitor(enabled, keys, checked, mons) ELSE << >>)
    \o (IF enabled THEN <<CmdSwitch("/internal")>> ELSE << >>)

\* load_settings, lines 96-97, with the stateChanged -> save_settings slot
\* (line 68) that QCheckBox.setChecked runs synchronously whenever the state
\* changes: st carries self.settings, the checked set, the file and the
\* writes made so far.
RECURSIVE LoadLoop(_, _, _)
LoadLoop(keys, i, st) ==
    IF i > Len(keys) THEN st
    ELSE LET k == keys[i]
             want == k \in Range(SettingsGet(st.settings))
         IN  IF want = (k \in st.checked)
             THEN LoadLoop(keys, i + 1, st)
             ELSE LET ch == IF want THEN st.checked \cup {k} ELSE st.checked \ {k}
                      list == save_settings(keys, ch)
                  IN  LoadLoop(keys, i + 1,
                               [settings |-> Settings(list),
                                checked |-> ch,
                                file |-> FileOf(Settings(list)),
                                writes |-> Append(st.writes, CmdWrite(list))])

(* ---------------------------------------------------------------- state *)
VARIABLES
    env,                         \* the machine's monitors
    file,                        \* SETTINGS_FILE on disk
    external,                    \* outside monitor changes made so far
    args,                        \* the command line of the last invocation
    phase,                       \* "stopped" or "running" (inside app.exec())
    exit_status,                 \* "none", "0", "1" (traceback) or "abort"
    app_created,                 \* QApplication, window and tray icon were built
    no_ddcci,                    \* self.no_ddcci
    monitors,                    \* self.monitors
    monitor_checkboxes,          \* self.monitor_checkboxes (absent when no_ddcci)
    settings,                    \* self.settings
    first_run,                   \* self.first_run
    secondary_monitors_enabled,  \* self.secondary_monitors_enabled
    tray_icon,                   \* self.tray_icon: shown, icon variant, menu text
    window_visible,              \* the settings window is on screen
    lastop,                      \* the handler that ran last
    log,                         \* the calls that handler made, in order
    entry,                       \* secondary_monitors_enabled when the last toggle began
    pre_count,                   \* active monitors when the last toggle began
    enabled0,                    \* secondary_monitors_enabled after construction
    toggles                      \* completed toggles since construction, mod 2

vars == <<env, file, external, args, phase, exit_status, app_created, no_ddcci,
          monitors, monitor_checkboxes, settings, first_run,
          secondary_monitors_enabled, tray_icon, window_visible, lastop, log,
          entry, pre_count, enabled0, toggles>>

machine == <<env, file, external>>
process == <<args, phase, exit_status, app_created>>
object == <<no_ddcci, monitors, monitor_checkboxes, settings, first_run,
            secondary_monitors_enabled, tray_icon, window_visible>>
history == <<enabled0, toggles>>

\* The handler that ran was not a toggle.
NoToggle == entry' = FALSE /\ pre_count' = 0

NoCheckboxes == [defined |-> FALSE, keys |-> NoNames, checked |-> {}]
Checkboxes(keys, checked) == [defined |-> TRUE, keys |-> keys, checked |-> checked]
NoTray == [shown |-> FALSE, variant |-> "none", menu |-> "none"]
Tray(enabled) ==
    [shown |-> TRUE, variant |-> IconVariant(enabled), menu |-> MenuText(enabled)]

\* The name lists tried: up to MaxArgs names, in ascending order.
ArgLists ==
    {l \in UNION {[1..n -> Names] : n \in 0..MaxArgs} :
        \A i, j \in 1..Len(l) : i < j => l[i] < l[j]}
\* argparse, lines 181-186: enable / disable are None or a non-empty list.
ArgValues == [list : BOOLEAN, enable : ArgLists, disable : ArgLists, no_ddcci : BOOLEAN]
NoArgs == [list |-> FALSE, enable |-> NoNames, disable |-> NoNames, no_ddcci |-> FALSE]
\* The command lines with none of --list, --enable, --disable.
GuiArgs == {a \in ArgValues : ~a.list /\ a.enable = NoNames /\ a.disable = NoNames}

\* No QMS object exists (before the first start, and in the one-shot commands).
NoObject ==
    /\ no_ddcci' = FALSE
    /\ monitors' = << >>
    /\ monitor_checkboxes' = NoCheckboxes
    /\ settings' = EmptySettings
    /\ first_run' = FALSE
    /\ secondary_monitors_enabled' = FALSE
    /\ tray_icon' = NoTray
    /\ window_visible' = FALSE
    /\ entry' = FALSE
    /\ pre_count' = 0
    /\ enabled0' = FALSE
    /\ toggles' = 0

Init ==
    /\ env \in EnvValues
    /\ file \in {FileAbsent, FileMalformed}
    /\ external = 0
    /\ args = NoArgs
    /\ phase = "stopped"
    /\ exit_status = "none"
    /\ app_created = FALSE
    /\ no_ddcci = FALSE
    /\ monitors = << >>
    /\ monitor_checkboxes = NoCheckboxes
    /\ settings = EmptySettings
    /\ first_run = FALSE
    /\ secondary_monitors_enabled = FALSE
    /\ tray_icon = NoTray
    /\ window_visible = FALSE
    /\ lastop = "none"
    /\ log = << >>
    /\ entry = FALSE
    /\ pre_count = 0
    /\ enabled0 = FALSE
    /\ toggles = 0

(* --------------------------------------------------- __main__, 180-222 *)
\* lines 188-190: --list.
CliList(a) ==
    /\ phase = "stopped"
    /\ a.list
    /\ args' = a
    /\ log' = <<CmdList>>
    /\ exit_status' = "0"
    /\ app_created' = FALSE
    /\ lastop' = "cli_list"
    /\ NoObject
    /\ UNCHANGED <<machine, phase>>

\* An --enable that sends the names with enable=False.
CliEnableInverted(a) ==
    /\ phase = "stopped"
    /\ ~a.list /\ a.enable # NoNames
    /\ args' = a
    /\ log' = <<CmdScan, CmdMonitors(a.enable, FALSE)>>
    /\ env' = toggle_monitors(env, a.enable, FALSE)
    /\ exit_status' = "0"
    /\ app_created' = FALSE
    /\ lastop' = "cli_enable"
    /\ NoObject
    /\ UNCHANGED <<file, external, phase>>

\* lines 192-195: --enable names.
CliEnable(a) ==
    /\ phase = "stopped"
    /\ ~a.list /\ a.enable # NoNames
    /\ args' = a
    /\ log' = <<CmdScan, CmdMonitors(a.enable, TRUE)>>
    /\ env' = toggle_monitors(env, a.enable, TRUE)
    /\ exit_status' = "0"
    /\ app_created' = FALSE
    /\ lastop' = "cli_enable"
    /\ NoObject
    /\ UNCHANGED <<file, external, phase>>

\* A --disable that does not give way to --enable.
CliDisableUnguarded(a) ==
    /\ phase = "stopped"
    /\ ~a.list /\ a.disable # NoNames
    /\ args' = a
    /\ log' = <<CmdScan, CmdMonitors(a.disable, FALSE)>>
    /\ env' = toggle_monitors(env, a.disable, FALSE)
    /\ exit_status' = "0"
    /\ app_created' = FALSE
    /\ lastop' = "cli_disable"
    /\ NoObject
    /\ UNCHANGED <<file, external, phase>>

\* lines 197-200: --disable names.
CliDisable(a) ==
    /\ phase = "stopped"
    /\ ~a.list /\ a.enable = NoNames /\ a.disable # NoNames
    /\ args' = a
    /\ log' = <<CmdScan, CmdMonitors(a.disable, FALSE)>>
    /\ env' = toggle_monitors(env, a.disable, FALSE)
    /\ exit_status' = "0"
    /\ app_created' = FALSE
    /\ lastop' = "cli_disable"
    /\ NoObject
    /\ UNCHANGED <<file, external, phase>>

\* lines 202-221 with QMS.__init__ (22-35), init_ui (37-46) and
\* load_settings (90-102): the interactive application starts.
Start(a) ==
    /\ phase = "stopped"
    /\ ~a.list /\ a.enable = NoNames /\ a.disable = NoNames
    /\ LET mons == generate_monitors(env)
           boxes == IF ~a.no_ddcci THEN Checkboxes(CheckboxNames(mons), {})
                                   ELSE NoCheckboxes
           scans == IF ~a.no_ddcci THEN <<CmdScan, CmdScan>> ELSE <<CmdScan>>
           en == get_active_monitors(mons)
           loaded == IF boxes.defined
                     THEN LoadLoop(boxes.keys, 1,
                                   [settings |-> file.doc, checked |-> {},
                                    file |-> file, writes |-> << >>])
                     ELSE [settings |-> file.doc, checked |-> {},
                           file |-> file, writes |-> << >>]
       IN  /\ args' = a
           /\ app_created' = TRUE
           /\ no_ddcci' = a.no_ddcci
           /\ monitors' = mons
           /\ secondary_monitors_enabled' = en
           /\ enabled0' = en
           /\ tray_icon' = Tray(en)
           /\ toggles' = 0
           /\ entry' = FALSE
           /\ pre_count' = 0
           /\ IF ~file.exists
              THEN \* line 102, then lines 219-221
                   /\ first_run' = TRUE
                   /\ settings' = EmptySettings
                   /\ monitor_checkboxes' = boxes
                   /\ window_visible' = shown_at_start(TRUE)
                   /\ phase' = "running"
                   /\ exit_status' = "none"
                   /\ lastop' = "start"
                   /\ log' = scans
                   /\ file' = file
              ELSE IF ~file.valid
              THEN \* json.load raises inside QMS(): the traceback ends the process
                   /\ first_run' = FALSE
                   /\ settings' = EmptySettings
                   /\ monitor_checkboxes' = boxes
                   /\ window_visible' = FALSE
                   /\ phase' = "stopped"
                   /\ exit_status' = "1"
                   /\ lastop' = "start_raised"
                   /\ log' = Append(scans, CmdRaise("JSONDecodeError"))
                   /\ file' = file
              ELSE /\ first_run' = FALSE
                   /\ settings' = loaded.settings
                   /\ monitor_checkboxes' = [boxes EXCEPT !.checked = loaded.checked]
                   /\ window_visible' = shown_at_start(FALSE)
                   /\ phase' = "running"
                   /\ exit_status' = "none"
                   /\ lastop' = "start"
                   /\ log' = scans \o loaded.writes
                   /\ file' = loaded.file
    /\ UNCHANGED <<env, external>>

(* ------------------------------------------------------ the handlers *)
ThePlan ==
    TogglePlan(secondary_monitors_enabled, no_ddcci, monitor_checkboxes.keys,
               monitor_checkboxes.checked, monitors)

StopsBefore(plan, n) == \E j \in 1..n : plan[j].op = "StopIteration"

\* toggle_secondary_monitors, lines 149-167, run from the tray click
\* (114-116) or the first menu action (127), every call returning.
Toggle ==
    /\ phase = "running"
    /\ ~StopsBefore(ThePlan, Len(ThePlan))
    /\ LET plan == ThePlan
           after == EffectAll(env, plan)
           mons == generate_monitors(after)
           en == Flip(secondary_monitors_enabled)
       IN  /\ env' = after
           /\ secondary_monitors_enabled' = en
           /\ tray_icon' = Tray(en)
           /\ IF rebuilds_after_toggle(no_ddcci)
              THEN \* line 167: create_monitor_checkboxes
                   /\ monitors' = mons
                   /\ monitor_checkboxes' = Checkboxes(CheckboxNames(mons), {})
                   /\ log' = Append(plan, CmdScan)
              ELSE /\ UNCHANGED <<monitors, monitor_checkboxes>>
                   /\ log' = plan
           /\ entry' = secondary_monitors_enabled
           /\ pre_count' = active_monitors_count(generate_monitors(env))
           /\ toggles' = (toggles + 1) % 2
           /\ lastop' = "toggle"
    /\ UNCHANGED <<file, external, process, no_ddcci, settings, first_run,
                   window_visible, enabled0>>

\* A toggle that swallows the exception of its at-th call and carries on to
\* the end of the method.
ToggleRaisesCarriesOn(at) ==
    /\ phase = "running"
    /\ at \in 1..Len(ThePlan)
    /\ ~StopsBefore(ThePlan, Len(ThePlan))
    /\ env' = EffectAll(env, SubSeq(ThePlan, 1, at - 1)
                             \o SubSeq(ThePlan, at + 1, Len(ThePlan)))
    /\ log' = ThePlan
    /\ secondary_monitors_enabled' = Flip(secondary_monitors_enabled)
    /\ tray_icon' = Tray(Flip(secondary_monitors_enabled))
    /\ entry' = secondary_monitors_enabled
    /\ pre_count' = active_monitors_count(generate_monitors(env))
    /\ phase' = "stopped"
    /\ exit_status' = "abort"
    /\ lastop' = "toggle_raised"
    /\ monitors' = << >>
    /\ monitor_checkboxes' = NoCheckboxes
    /\ settings' = EmptySettings
    /\ first_run' = FALSE
    /\ window_visible' = FALSE
    /\ enabled0' = FALSE
    /\ toggles' = 0
    /\ UNCHANGED <<file, external, args, app_created, no_ddcci>>

\* toggle_secondary_monitors when its at-th call raises (or next() does): the
\* exception leaves the slot before line 163 and PyQt6 ends the process with
\* qFatal().  The state and the tray are kept as the exception left them; the
\* rest of the object goes with the process.
ToggleRaises(at) ==
    /\ phase = "running"
    /\ at \in 1..Len(ThePlan)
    /\ ~StopsBefore(ThePlan, at - 1)
    /\ env' = EffectAll(env, SubSeq(ThePlan, 1, at - 1))
    /\ log' = SubSeq(ThePlan, 1, at)
    /\ entry' = secondary_monitors_enabled
    /\ pre_count' = active_monitors_count(generate_monitors(env))
    /\ phase' = "stopped"
    /\ exit_status' = "abort"
    /\ lastop' = "toggle_raised"
    /\ monitors' = << >>
    /\ monitor_checkboxes' = NoCheckboxes
    /\ settings' = EmptySettings
    /\ first_run' = FALSE
    /\ window_visible' = FALSE
    /\ enabled0' = FALSE
    /\ toggles' = 0
    /\ UNCHANGED <<file, external, args, app_created, no_ddcci,
                   secondary_monitors_enabled, tray_icon>>

\* A click on the checkbox of monitor k: stateChanged runs save_settings
\* (lines 68 and 80-88).
CheckboxChange(k) ==
    /\ phase = "running"
    /\ window_visible
    /\ monitor_checkboxes.defined
    /\ k \in Range(monitor_checkboxes.keys)
    /\ LET ch == IF k \in monitor_checkboxes.checked
                 THEN monitor_checkboxes.checked \ {k}
                 ELSE monitor_checkboxes.checked \cup {k}
           list == save_settings(monitor_checkboxes.keys, ch)
       IN  /\ monitor_checkboxes' = [monitor_checkboxes EXCEPT !.checked = ch]
           /\ settings' = Settings(list)
           /\ file' = FileOf(Settings(list))
           /\ log' = <<CmdWrite(list)>>
    /\ lastop' = "checkbox"
    /\ NoToggle
    /\ UNCHANGED <<env, external, process, no_ddcci, monitors, first_run,
                   secondary_monitors_enabled, tray_icon, window_visible, history>>

\* The rescan button (line 46; hidden when no_ddcci, line 40) runs
\* create_monitor_checkboxes, lines 60-78.
Rescan ==
    /\ phase = "running"
    /\ window_visible
    /\ ~no_ddcci
    /\ LET mons == generate_monitors(env)
       IN  /\ monitors' = mons
           /\ monitor_checkboxes' = Checkboxes(CheckboxNames(mons), {})
    /\ log' = <<CmdScan>>
    /\ lastop' = "rescan"
    /\ NoToggle
    /\ UNCHANGED <<machine, process, no_ddcci, settings, first_run,
                   secondary_monitors_enabled, tray_icon, window_visible, history>>

\* The "Settings" menu action, lines 129-130: self.show.
ShowWindow ==
    /\ phase = "running"
    /\ ~window_visible
    /\ window_visible' = TRUE
    /\ log' = << >>
    /\ lastop' = "show"
    /\ NoToggle
    /\ UNCHANGED <<machine, process, no_ddcci, monitors, monitor_checkboxes,
                   settings, first_run, secondary_monitors_enabled, tray_icon,
                   history>>

\* closeEvent, lines 175-177: the close is ignored and the window hidden.
CloseWindow ==
    /\ phase = "running"
    /\ window_visible
    /\ window_visible' = FALSE
    /\ log' = << >>
    /\ lastop' = "close"
    /\ NoToggle
    /\ UNCHANGED <<machine, process, no_ddcci, monitors, monitor_checkboxes,
                   settings, first_run, secondary_monitors_enabled, tray_icon,
                   history>>

\* exit_app, lines 169-173: the window and the tray icon go and the process
\* ends with sys.exit().
ExitApp ==
    /\ phase = "running"
    /\ phase' = "stopped"
    /\ exit_status' = "0"
    /\ log' = << >>
    /\ lastop' = "exit"
    /\ NoObject
    /\ UNCHANGED <<machine, args, app_created>>

\* A monitor is plugged in, unplugged or switched by something else.
ExternalChange(n, v) ==
    /\ external < MaxExternal
    /\ v # env[n]
    /\ env' = [env EXCEPT ![n] = v]
    /\ external' = external + 1
    /\ lastop' = "external"
    /\ log' = << >>
    /\ NoToggle
    /\ UNCHANGED <<file, process, object, history>>

\* The interactive application: its starts, its handlers and the monitor
\* changes made around it.
Next ==
    \/ \E a \in GuiArgs : Start(a)
    \/ Toggle
    \/ \E at \in 1..(MaxMonitors + 1) : ToggleRaises(at)
    \/ \E k \in Names : CheckboxChange(k)
    \/ Rescan
    \/ ShowWindow
    \/ CloseWindow
    \/ ExitApp
    \/ \E n \in Names, v \in {Absent} \cup Attached : ExternalChange(n, v)

Spec == Init /\ [][Next]_vars

\* The command line: every invocation of the script, one-shot or interactive.
NextMain ==
    \/ \E a \in ArgValues : CliList(a)
    \/ \E a \in ArgValues : CliEnable(a)
    \/ \E a \in ArgValues : CliDisable(a)
    \/ \E a \in ArgValues : Start(a)
    \/ ExitApp

SpecMain == Init /\ [][NextMain]_vars

(* ----------------------------------------------------------- properties *)
IsPerMonitor(c) == c.op = "toggle_monitors"
ToggleRan == lastop \in {"toggle", "toggle_raised"}
JustInvoked ==
    lastop \in {"cli_list", "cli_enable", "cli_disable", "start", "start_raised"}
\* The names stored in the settings file (none when it is absent or unreadable).
Stored == IF file.exists /\ file.valid THEN Range(SettingsGet(file.doc)) ELSE {}

\* C1: in every toggle, entered Disabled, "/extend" is issued before any
\* per-monitor enable; entered Enabled, every per-monitor disable is issued
\* before "/internal".
C1_CommandOrder ==
    ToggleRan =>
        /\ ~entry =>
             \A i \in 1..Len(log) :
                 (IsPerMonitor(log[i]) /\ log[i].enable) =>
                     \E j \in 1..(i - 1) : log[j] = CmdSwitch("/extend")
        /\ entry =>
             \A i, j \in 1..Len(log) :
                 (IsPerMonitor(log[i]) /\ ~log[i].enable
                    /\ log[j] = CmdSwitch("/internal")) => i < j

\* A toggle entered Enabled that disabled a checked monitor and then ran
\* "/internal".
C1_Witness ==
    /\ lastop = "toggle" /\ entry
    /\ \E i, j \in 1..Len(log) :
           IsPerMonitor(log[i]) /\ ~log[i].enable /\ log[j] = CmdSwitch("/internal")

\* C2: a completed toggle flips secondary_monitors_enabled exactly once, in
\* either mode, so the state equals the one after construction iff the number
\* of completed toggles is even; checkbox changes, rescans, showing and
\* closing the window and outside monitor changes leave it alone.
C2_FlipsOncePerToggle ==
    /\ [](phase = "running" =>
            ((secondary_monitors_enabled = enabled0) <=> (toggles = 0)))
    /\ [][/\ lastop' = "toggle" =>
                secondary_monitors_enabled' = ~secondary_monitors_enabled
          /\ lastop' \in {"checkbox", "rescan", "show", "close", "external"} =>
                secondary_monitors_enabled' = secondary_monitors_enabled]_vars

\* Two completed toggles in a row, back in the state after construction.
C2_Witness ==
    /\ phase = "running" /\ lastop = "toggle" /\ toggles = 0
    /\ secondary_monitors_enabled = enabled0

\* C3: two consecutive toggles, with nothing happening in between, restore
\* the number of active monitors counted before the first of them.
C3_ToggleSymmetry ==
    [][(lastop = "toggle" /\ lastop' = "toggle") =>
          active_monitors_count(generate_monitors(env')) = pre_count]_vars

\* C4: when the application has exited and is started again in DDC/CI mode
\* with a stored selection s, each of whose names has a checkbox, the start
\* loads s: self.settings and the checked checkboxes equal s.
C4_RoundTrip ==
    [][(lastop = "exit" /\ lastop' = "start" /\ ~no_ddcci'
          /\ file.exists /\ file.valid
          /\ Stored \subseteq Range(monitor_checkboxes'.keys)) =>
          /\ Range(SettingsGet(settings')) = Stored
          /\ monitor_checkboxes'.checked = Stored]_vars

\* C5: right after a checkbox state change the file's secondary_monitors
\* lists exactly the checked monitors.
C5_Autosave ==
    (lastop = "checkbox"
       \/ (lastop = "start" /\ \E i \in 1..Len(log) : log[i].op = "write_settings")) =>
        /\ file.exists /\ file.valid /\ file.doc.has_key
        /\ Range(file.doc.secondary_monitors) = monitor_checkboxes.checked
        /\ Len(file.doc.secondary_monitors) = Cardinality(monitor_checkboxes.checked)

\* A checkbox was just changed, leaving one checked and another unchecked.
C5_Witness ==
    /\ lastop = "checkbox"
    /\ monitor_checkboxes.checked # {}
    /\ monitor_checkboxes.checked # Range(monitor_checkboxes.keys)

\* C6: the stored selection is always a subset of the names of the last
\* scan's monitors with monitor[3] == "No".
C6_StoredSubsetOfScan ==
    phase = "running" => Stored \subseteq Range(CheckboxNames(monitors))

\* C7: after a rescan every rebuilt checkbox is checked iff its name is in
\* the stored selection.
C7_RescanReapplies ==
    lastop = "rescan" =>
        monitor_checkboxes.checked
            = {k \in Range(monitor_checkboxes.keys) : k \in Stored}

\* C8: after every rescan and every toggle secondary_monitors_enabled is the
\* value computed from the latest scan.
C8_DerivedFromScan ==
    lastop \in {"rescan", "toggle"} =>
        secondary_monitors_enabled = get_active_monitors(monitors)

C10_NoDdcci ==
    [][(no_ddcci /\ phase = "running" /\ lastop' \in {"toggle", "toggle_raised"}) =>
          /\ file' = file
          /\ log' = <<CmdSwitch(IF secondary_monitors_enabled
                                THEN "/internal" ELSE "/extend")>>
          /\ lastop' = "toggle" =>
                /\ monitors' = monitors
                /\ tray_icon' = Tray(~secondary_monitors_enabled)]_vars

\* A completed toggle in --no-ddcci mode with a settings file on disk and a
\* monitor changed since the start.
C10_Witness ==
    /\ no_ddcci /\ phase = "running" /\ lastop = "toggle"
    /\ file.exists
    /\ monitors # generate_monitors(env)

\* A start of the interactive application has just been attempted.
StartRan == lastop \in {"start", "start_raised"}

\* C11 as stated: a start with no settings file sets first_run, does not
\* crash, does not create the file, and leaves the main window hidden.
C11_StartsHidden ==
    [][(~file.exists /\ lastop' \in {"start", "start_raised"}) =>
          /\ first_run' /\ phase' = "running" /\ exit_status' = "none"
          /\ ~file'.exists
          /\ ~window_visible']_vars

\* C11 amended: a start with no settings file sets first_run, does not crash
\* and does not create the file, and the main window is shown; a start that
\* reads a settings file leaves first_run false and the window hidden.
C11_FirstRunShown ==
    [][/\ (~file.exists /\ lastop' \in {"start", "start_raised"}) =>
             /\ first_run' /\ phase' = "running" /\ exit_status' = "none"
             /\ ~file'.exists
             /\ window_visible'
       /\ (file.exists /\ lastop' = "start") =>
             (~first_run' /\ ~window_visible')]_vars

\* The first start on a machine with no settings file.
C11_Witness ==
    /\ lastop = "start" /\ ~file.exists
    /\ first_run /\ window_visible /\ phase = "running"

\* C12: a start that finds a settings file that is not valid JSON does not
\* end with an uncaught exception; the application reaches its running state.
C12_ParseErrorReported ==
    (StartRan /\ file.exists /\ ~file.valid) =>
        (phase = "running" /\ exit_status = "none")

\* The call that raised, when the last toggle was cut short.
Raised == log[Len(log)]

\* C13: when the command for one checked monitor raises during a toggle, the
\* commands of the whole toggle are still issued (the other checked monitors'
\* and the display switch) and secondary_monitors_enabled flips.
C13_FailureIsolated ==
    [][(phase = "running" /\ ~no_ddcci
          /\ lastop' = "toggle_raised" /\ IsPerMonitor(Raised')) =>
          /\ \A i \in 1..Len(ThePlan) : ThePlan[i] \in Range(log')
          /\ secondary_monitors_enabled' = ~secondary_monitors_enabled]_vars

\* C14: when a display-switch call raises during a toggle, the toggle ends
\* there: a failed "/extend" is the only command issued (no per-monitor
\* command follows), a failed "/internal" is the last command of the toggle,
\* and secondary_monitors_enabled and the tray icon and menu keep the values
\* they had before the toggle.
C14_SwitchFailureAborts ==
    [][(phase = "running" /\ lastop' = "toggle_raised"
          /\ Raised'.op = "run_display_switch") =>
          /\ secondary_monitors_enabled' = secondary_monitors_enabled
          /\ tray_icon' = tray_icon
          /\ ~secondary_monitors_enabled =>
                (log' = <<CmdSwitch("/extend")>> /\ env' = env)
          /\ secondary_monitors_enabled =>
                (log' = ThePlan /\ Raised' = CmdSwitch("/internal"))]_vars

\* A toggle entered Enabled disabled a checked monitor and was then cut short
\* by "/internal"; the state is still Enabled and the tray still shows it.
C14_Witness ==
    /\ lastop = "toggle_raised" /\ entry
    /\ Len(log) >= 2 /\ IsPerMonitor(log[1])
    /\ Raised = CmdSwitch("/internal")
    /\ secondary_monitors_enabled /\ tray_icon.variant = "primary"

\* C15: a completed toggle in DDC/CI mode issues one per-monitor command for
\* each checked monitor and none for an unchecked one, all in one direction:
\* enable when the toggle is entered Disabled, disable when entered Enabled.
C15_ExactlyChecked ==
    [][(phase = "running" /\ ~no_ddcci /\ lastop' = "toggle") =>
          LET pm == SelectSeq(log', IsPerMonitor)
          IN  /\ Len(pm) = Cardinality(monitor_checkboxes.checked)
              /\ \A k \in monitor_checkboxes.checked :
                     \E i \in 1..Len(pm) : pm[i].names = <<k>>
              /\ \A i \in 1..Len(pm) :
                     /\ Len(pm[i].names) = 1
                     /\ pm[i].names[1] \in monitor_checkboxes.checked
                     /\ pm[i].enable = ~secondary_monitors_enabled]_vars

\* A completed toggle that sent one command while two monitors had a
\* checkbox: one was checked, the other not.
C15_Witness ==
    /\ lastop = "toggle" /\ ~no_ddcci /\ external = 0
    /\ Len(SelectSeq(log, IsPerMonitor)) = 1
    /\ Len(monitor_checkboxes.keys) = 2

\* C16: after the start and after every completed toggle the tray icon is
\* the "primary" one iff secondary_monitors_enabled (else "secondary") and
\* the first menu action reads "Disable secondary monitors" iff
\* secondary_monitors_enabled (else "Enable secondary monitors").
C16_TrayTracksState ==
    phase = "running" =>
        /\ tray_icon.shown
        /\ tray_icon.variant
             = (IF secondary_monitors_enabled THEN "primary" ELSE "secondary")
        /\ tray_icon.menu
             = (IF secondary_monitors_enabled THEN "Disable secondary monitors"
                                              ELSE "Enable secondary monitors")

\* Two toggles after a start that found the secondary monitors enabled: the
\* tray shows "primary" again.
C16_Witness ==
    /\ lastop = "toggle" /\ toggles = 0 /\ enabled0
    /\ secondary_monitors_enabled
    /\ tray_icon.variant = "primary"
    /\ tray_icon.menu = "Disable secondary monitors"

\* C17: a start leaves the settings file as it was, whatever selection is
\* stored in it.
C17_LoadReadOnly ==
    [][lastop' \in {"start", "start_raised"} => file' = file]_vars

\* C18: a completed toggle in DDC/CI mode, with the monitors as the last scan
\* found them, leaves the set of checked checkboxes and the settings file as
\* they were.
C18_SelectionKept ==
    [][(phase = "running" /\ ~no_ddcci /\ lastop' = "toggle"
          /\ monitors = generate_monitors(env)) =>
          /\ monitor_checkboxes'.checked = monitor_checkboxes.checked
          /\ file' = file]_vars

\* C19: in DDC/CI mode every key of monitor_checkboxes is the name of a
\* monitor of self.monitors with monitor[3] == "No", so the index lookup of
\* the toggle finds a match and next() never raises StopIteration.
C19_KeysAreScanned ==
    /\ (phase = "running" /\ ~no_ddcci) =>
          /\ monitor_checkboxes.defined
          /\ \A k \in Range(monitor_checkboxes.keys) :
                 /\ \E i \in 1..Len(monitors) :
                        monitors[i][2] = k /\ monitors[i][4] = "No"
                 /\ monitor_index(monitors, k) # 0
    /\ \A i \in 1..Len(log) : log[i].op # "StopIteration"

\* A toggle looked up a checked monitor after the monitors had changed
\* outside the application.
C19_Witness ==
    /\ lastop = "toggle" /\ ~no_ddcci /\ external > 0
    /\ \E i \in 1..Len(log) : IsPerMonitor(log[i])
    /\ monitor_checkboxes.keys # << >>

\* C20: every invocation executes at most one of the one-shot actions, the
\* first given of --list, --enable, --disable (the others are ignored), and
\* the interactive application is created iff none of the three is given.
C20_Exclusive ==
    JustInvoked =>
        LET shots == {c \in Range(log) : c.op = "list_monitors" \/ IsPerMonitor(c)}
        IN  /\ args.list => (lastop = "cli_list" /\ shots = {CmdList})
            /\ (~args.list /\ args.enable # NoNames) =>
                  (lastop = "cli_enable"
                     /\ shots = {CmdMonitors(args.enable, TRUE)})
            /\ (~args.list /\ args.enable = NoNames /\ args.disable # NoNames) =>
                  (lastop = "cli_disable"
                     /\ shots = {CmdMonitors(args.disable, FALSE)})
            /\ app_created
                 <=> (~args.list /\ args.enable = NoNames /\ args.disable = NoNames)
            /\ app_created => (lastop \in {"start", "start_raised"} /\ shots = {})

\* --list given together with --enable and --disable: only the list is made.
C20_Witness ==
    /\ lastop = "cli_list"
    /\ args.enable # NoNames /\ args.disable # NoNames
    /\ log = <<CmdList>>

====
